---------------------------- MODULE Spec2Model ----------------------------
(***************************************************************************)
(* Model of the strategy recommendation engine of the marketing analyst    *)
(* agent (src/src/tools/strategy.py, StrategyRecommendationTool).          *)
(*                                                                         *)
(* Python strings are TLA+ strings handled character by character with     *)
(* Len, SubSeq and \o.  Python dicts are functions over their key set,     *)
(* lists are sequences, Optional[T] is a sequence holding zero (None) or   *)
(* one value.                                                              *)
(***************************************************************************)
EXTENDS Integers, Sequences, FiniteSets, TLC

VARIABLES
    pc,      \* "idle": no call in progress; "done": the last call has returned
    op,      \* the operation last called
    args,    \* the arguments of the last call, as the caller passed them
    result,  \* what the last call returned
    prior,   \* an earlier recommend call kept for comparison: <<>> or <<[args, result]>>
    calls,   \* per thread, the recommend call it is running: its position and locals
    agent,   \* the MarketingAnalystAgent: its executor, the run call and what it returned
    session  \* interactive mode: the lines read so far and the calls of agent.run

vars == <<pc, op, args, result, prior, calls, agent, session>>

---------------------------------------------------------------------------
(* Strings                                                                 *)

\* x in list / x in dict
InSeq(x, seq) == \E i \in 1..Len(seq) : seq[i] = x

UpperChars == "ABCDEFGHIJKLMNOPQRSTUVWXYZ"

LowerChars == "abcdefghijklmnopqrstuvwxyz"

\* the lower-case letter of each upper-case letter
ToLower ==
    [c \in { SubSeq(UpperChars, i, i) : i \in 1..Len(UpperChars) } |->
        LET i == CHOOSE k \in 1..Len(UpperChars) : SubSeq(UpperChars, k, k) = c
        IN  SubSeq(LowerChars, i, i)]

\* str.lower() on one character
LowerChar(c) == IF c \in DOMAIN ToLower THEN ToLower[c] ELSE c

RECURSIVE Lower(_)
\* str.lower()
Lower(s) ==
    IF s = "" THEN ""
    ELSE LowerChar(SubSeq(s, 1, 1)) \o Lower(SubSeq(s, 2, Len(s)))

RECURSIVE ReplaceSpaces(_)
\* str.replace(" ", "_"): every space becomes an underscore
ReplaceSpaces(s) ==
    IF s = "" THEN ""
    ELSE (IF SubSeq(s, 1, 1) = " " THEN "_" ELSE SubSeq(s, 1, 1))
         \o ReplaceSpaces(SubSeq(s, 2, Len(s)))

\* sub in s, for strings
Contains(sub, s) ==
    \E i \in 1..(Len(s) - Len(sub) + 1) : SubSeq(s, i, i + Len(sub) - 1) = sub

\* lower-casing alone, the spaces kept
NormalizeLowerOnly(s) == Lower(s)

\* strategy.py:78-80  x.lower().replace(" ", "_")
Normalize(s) == ReplaceSpaces(Lower(s))

---------------------------------------------------------------------------
(* Static tables                                                           *)

\* strategy.py:117-318
strategy_templates ==
  ( "increase_market_share" :> <<
      [strategy |-> "Competitive Pricing Strategy",
       description |-> "Implement competitive pricing to attract customers from competitors.",
       tactics |-> <<
           "Conduct comprehensive pricing analysis",
           "Identify price elasticity in target segments",
           "Develop tiered pricing options",
           "Implement strategic discounting for new customers"
       >>,
       suitable_for |-> <<"price_sensitive", "b2c", "retail", "e_commerce">>,
       time_horizon |-> <<"short_term", "medium_term">>],
      [strategy |-> "Product Differentiation",
       description |-> "Enhance product features to stand out from competitors.",
       tactics |-> <<
           "Conduct feature gap analysis against competitors",
           "Prioritize development of unique selling points",
           "Enhance product positioning",
           "Develop compelling messaging around differentiators"
       >>,
       suitable_for |-> <<"premium", "b2b", "tech", "saas">>,
       time_horizon |-> <<"medium_term", "long_term">>],
      [strategy |-> "Market Expansion",
       description |-> "Enter new geographic or demographic markets.",
       tactics |-> <<
           "Identify high-potential market segments",
           "Develop market entry strategy",
           "Adapt product/messaging for new markets",
           "Build channel partnerships in new regions"
       >>,
       suitable_for |-> <<"established", "b2b", "b2c", "global">>,
       time_horizon |-> <<"medium_term", "long_term">>],
      [strategy |-> "Digital Channel Optimization",
       description |-> "Enhance digital marketing to increase reach and acquisition.",
       tactics |-> <<
           "Audit current digital channel performance",
           "Reallocate budget to high-performing channels",
           "Implement advanced targeting capabilities",
           "Develop content strategy for organic growth"
       >>,
       suitable_for |-> <<"digital_native", "e_commerce", "b2c", "d2c">>,
       time_horizon |-> <<"short_term", "medium_term">>]
    >> @@
    "improve_customer_retention" :> <<
      [strategy |-> "Customer Loyalty Program",
       description |-> "Implement or enhance loyalty program to increase retention.",
       tactics |-> <<
           "Design tiered reward structure",
           "Implement personalized loyalty benefits",
           "Develop exclusive content/features for loyal customers",
           "Create community elements for customer engagement"
       >>,
       suitable_for |-> <<"retail", "b2c", "subscription", "service">>,
       time_horizon |-> <<"short_term", "medium_term">>],
      [strategy |-> "Customer Experience Enhancement",
       description |-> "Improve customer experience across touchpoints.",
       tactics |-> <<
           "Map customer journey and identify friction points",
           "Implement customer feedback loops",
           "Enhance customer support capabilities",
           "Develop proactive engagement strategies"
       >>,
       suitable_for |-> <<"b2b", "b2c", "service", "subscription">>,
       time_horizon |-> <<"medium_term", "long_term">>],
      [strategy |-> "Value-Added Services",
       description |-> "Develop complementary services to increase customer value.",
       tactics |-> <<
           "Identify high-value service opportunities",
           "Develop bundling strategies",
           "Create educational content and resources",
           "Implement success management for key accounts"
       >>,
       suitable_for |-> <<"b2b", "saas", "premium", "service">>,
       time_horizon |-> <<"medium_term", "long_term">>],
      [strategy |-> "Personalization Strategy",
       description |-> "Implement data-driven personalization across customer interactions.",
       tactics |-> <<
           "Enhance customer data collection and integration",
           "Develop personalized content strategy",
           "Implement behavioral triggers for engagement",
           "Create personalized product recommendations"
       >>,
       suitable_for |-> <<"e_commerce", "b2c", "retail", "subscription">>,
       time_horizon |-> <<"short_term", "medium_term">>]
    >> @@
    "launch_new_product" :> <<
      [strategy |-> "Market Penetration Strategy",
       description |-> "Aggressive entry to quickly gain market share.",
       tactics |-> <<
           "Competitive pricing strategy",
           "High-visibility promotional campaign",
           "Strategic partnerships for distribution",
           "Early adopter incentive program"
       >>,
       suitable_for |-> <<"b2c", "tech", "startup", "consumer_goods">>,
       time_horizon |-> <<"short_term">>],
      [strategy |-> "Thought Leadership Campaign",
       description |-> "Establish category leadership through expertise.",
       tactics |-> <<
           "Develop educational content series",
           "Secure speaking opportunities at industry events",
           "Publish original research/white papers",
           "Build relationships with industry influencers"
       >>,
       suitable_for |-> <<"b2b", "saas", "professional_services", "tech">>,
       time_horizon |-> <<"medium_term", "long_term">>],
      [strategy |-> "Phased Rollout Strategy",
       description |-> "Controlled launch across segments to optimize product.",
       tactics |-> <<
           "Identify beta testing customer segments",
           "Develop feedback collection mechanisms",
           "Create rapid iteration processes",
           "Plan phase-based expansion roadmap"
       >>,
       suitable_for |-> <<"b2b", "tech", "saas", "complex_products">>,
       time_horizon |-> <<"medium_term">>],
      [strategy |-> "Integrated Launch Campaign",
       description |-> "Coordinated multi-channel campaign for maximum impact.",
       tactics |-> <<
           "Develop unified messaging strategy",
           "Create coordinated content across channels",
           "Plan sequential reveal strategy",
           "Implement measurement framework for optimization"
       >>,
       suitable_for |-> <<"b2c", "consumer_goods", "retail", "e_commerce">>,
       time_horizon |-> <<"short_term", "medium_term">>]
    >> @@
    "increase_brand_awareness" :> <<
      [strategy |-> "Content Marketing Strategy",
       description |-> "Build awareness through valuable content.",
       tactics |-> <<
           "Develop content pillars aligned with audience interests",
           "Create multi-format content strategy",
           "Implement SEO optimization for discoverability",
           "Establish content distribution partnerships"
       >>,
       suitable_for |-> <<"b2b", "b2c", "service", "thought_leadership">>,
       time_horizon |-> <<"medium_term", "long_term">>],
      [strategy |-> "Influencer Partnership Program",
       description |-> "Leverage influencers to expand brand reach.",
       tactics |-> <<
           "Identify relevant influencers across tiers",
           "Develop authentic partnership frameworks",
           "Create co-branded content opportunities",
           "Implement performance-based compensation models"
       >>,
       suitable_for |-> <<"b2c", "consumer_goods", "lifestyle", "e_commerce">>,
       time_horizon |-> <<"short_term", "medium_term">>],
      [strategy |-> "Community Building Initiative",
       description |-> "Create engaged community around brand values.",
       tactics |-> <<
           "Develop community platform strategy",
           "Create valuable engagement opportunities",
           "Implement user-generated content program",
           "Establish ambassador program for advocates"
       >>,
       suitable_for |-> <<"b2c", "lifestyle", "value_driven", "subscription">>,
       time_horizon |-> <<"medium_term", "long_term">>],
      [strategy |-> "Strategic PR Campaign",
       description |-> "Generate earned media coverage for brand.",
       tactics |-> <<
           "Develop newsworthy storylines",
           "Build relationships with key media outlets",
           "Create press kit and supporting materials",
           "Plan staged announcement strategy"
       >>,
       suitable_for |-> <<"b2b", "b2c", "launch", "corporate">>,
       time_horizon |-> <<"short_term", "medium_term">>]
    >> )

\* strategy.py:422-439
metrics_by_objective ==
  ( "increase_market_share" :> [primary |-> <<"Market share percentage", "New customer acquisition", "Competitive win rate">>, secondary |-> <<"Share of voice", "Brand consideration", "Product adoption rate">>] @@
    "improve_customer_retention" :> [primary |-> <<"Customer retention rate", "Churn rate", "Customer lifetime value">>, secondary |-> <<"Net promoter score", "Repeat purchase rate", "Account expansion rate">>] @@
    "launch_new_product" :> [primary |-> <<"Product adoption rate", "Revenue from new product", "Market penetration">>, secondary |-> <<"Product awareness", "Feature usage", "Cross-sell rate">>] @@
    "increase_brand_awareness" :> [primary |-> <<"Brand awareness", "Share of voice", "Brand search volume">>, secondary |-> <<"Social media engagement", "Press mentions", "Website traffic">>] )

\* strategy.py:449-454
impact_ranges ==
  ( "increase_market_share" :> [low |-> "5-8%", medium |-> "8-15%", high |-> "15-25%"] @@
    "improve_customer_retention" :> [low |-> "10-15%", medium |-> "15-25%", high |-> "25-40%"] @@
    "launch_new_product" :> [low |-> "2-5%", medium |-> "5-10%", high |-> "10-20%"] @@
    "increase_brand_awareness" :> [low |-> "20-30%", medium |-> "30-50%", high |-> "50-100%"] )

\* strategy.py:481-486
timelines ==
  ( "increase_market_share" :> "3-6 months for initial results, 6-12 months for full impact" @@
    "improve_customer_retention" :> "1-3 months for initial results, 6-9 months for full impact" @@
    "launch_new_product" :> "1-2 months for initial traction, 3-6 months for significant adoption" @@
    "increase_brand_awareness" :> "2-3 months for initial lift, 6-12 months for significant awareness increase" )

\* strategy.py:501-537
common_risks ==
  ( "Competitive Pricing Strategy" :> <<"Potential margin erosion", "Competitive retaliation", "Price war escalation">> @@
    "Product Differentiation" :> <<"Feature development delays", "Insufficient differentiation", "High development costs">> @@
    "Market Expansion" :> <<"Cultural/regional adaptation challenges", "Regulatory compliance issues", "Resource dispersion">> @@
    "Digital Channel Optimization" :> <<"Rising acquisition costs", "Algorithm changes affecting performance", "Technical implementation challenges">> @@
    "Customer Loyalty Program" :> <<"Low adoption rates", "Reward cost management", "Program complexity">> @@
    "Market Penetration Strategy" :> <<"Higher than expected acquisition costs", "Slower than projected adoption", "Supply chain constraints">> @@
    "Content Marketing Strategy" :> <<"Content production resource constraints", "Difficulty measuring direct ROI", "Audience building timeline">> )

---------------------------------------------------------------------------
(* Strategy selector                                                       *)

\* strategy.py:341  the keywords of a segment whose match can be determined
known_segments == <<"b2b", "b2c", "retail", "tech">>

\* strategy.py:343-347  the template without its matching metadata
strategy_copy(t) ==
    [strategy |-> t.strategy, description |-> t.description, tactics |-> t.tactics]

\* strategy.py:321-322  default objective if not found
DefaultedObjective(business_objective) ==
    IF business_objective \in DOMAIN strategy_templates
    THEN business_objective
    ELSE "increase_market_share"

\* strategy.py:331  the strategy is suitable for the time horizon
HorizonEligible(t, time_horizon) == InSeq(time_horizon, t.time_horizon)

\* strategy.py:334-338
segment_match(t, market_segment) ==
    \E k \in 1..Len(t.suitable_for) : Contains(t.suitable_for[k], market_segment)

\* every segment taken as one whose match can be determined
EverySegmentKnown(market_segment) == TRUE

\* strategy.py:341  any(segment in market_segment for segment in [...])
KnownSegment(market_segment) ==
    \E k \in 1..Len(known_segments) : Contains(known_segments[k], market_segment)

\* the test without the clause for segments whose match cannot be determined
PassesOnlyOnMatch(t, market_segment, time_horizon) ==
    /\ InSeq(time_horizon, t.time_horizon)
    /\ \E k \in 1..Len(t.suitable_for) : Contains(t.suitable_for[k], market_segment)

\* strategy.py:331-341  the test a template passes to enter filtered_strategies
Passes(t, market_segment, time_horizon) ==
    /\ HorizonEligible(t, time_horizon)
    /\ segment_match(t, market_segment) \/ ~KnownSegment(market_segment)

RECURSIVE FilterTemplates(_, _, _)
\* strategy.py:328-348  the loop over all_strategies
FilterTemplates(all_strategies, market_segment, time_horizon) ==
    IF all_strategies = <<>> THEN <<>>
    ELSE LET t == Head(all_strategies)
             rest == FilterTemplates(Tail(all_strategies), market_segment, time_horizon)
         IN  IF Passes(t, market_segment, time_horizon)
             THEN <<strategy_copy(t)>> \o rest
             ELSE rest

\* a fallback that returns the whole catalog list
FallbackWholeList(all_strategies) == Len(all_strategies)

\* strategy.py:351-358  at least 2 generic ones when nothing matched
FallbackCount(all_strategies) == IF Len(all_strategies) < 2 THEN Len(all_strategies) ELSE 2

\* the selector without the fallback of lines 351-358
get_strategies_without_fallback(business_objective, market_segment, time_horizon) ==
    FilterTemplates(strategy_templates[DefaultedObjective(business_objective)],
                    market_segment, time_horizon)

\* strategy.py:114-360
get_strategies_by_objective(business_objective, market_segment, time_horizon) ==
    LET all_strategies == strategy_templates[DefaultedObjective(business_objective)]
        filtered_strategies == FilterTemplates(all_strategies, market_segment, time_horizon)
    IN  IF filtered_strategies = <<>> /\ all_strategies # <<>>
        THEN [i \in 1..FallbackCount(all_strategies) |-> strategy_copy(all_strategies[i])]
        ELSE filtered_strategies

---------------------------------------------------------------------------
(* Implementation planner                                                  *)

Max(a, b) == IF a > b THEN a ELSE b

Min(a, b) == IF a < b THEN a ELSE b

\* the unit table with months in its last branch
timeline_unit_else_months(time_horizon) ==
    IF time_horizon = "short_term" THEN "weeks"
    ELSE IF time_horizon = "medium_term" THEN "months"
    ELSE IF time_horizon = "long_term" THEN "quarters"
    ELSE "months"

\* strategy.py:365-373
timeline_unit(time_horizon) ==
    IF time_horizon = "short_term" THEN "weeks"
    ELSE IF time_horizon = "medium_term" THEN "months"
    ELSE "quarters"

\* the duration table with 12 in its last branch
total_duration_always_12(time_horizon) ==
    IF time_horizon = "short_term" THEN 12
    ELSE IF time_horizon = "medium_term" THEN 12
    ELSE 12

\* strategy.py:365-373
total_duration(time_horizon) ==
    IF time_horizon = "short_term" THEN 12
    ELSE IF time_horizon = "medium_term" THEN 12
    ELSE 8

\* strategy.py:384  max(2, total_duration // len(strategies) + 1)
phase_duration(total, count) == Max(2, (total \div count) + 1)

\* strategy.py:387  i is the 0-based index of the phase
start_time(i, duration) == Max(0, i * duration - 1)

\* the end of a phase without the cut at total_duration
end_time_uncut(total, start, duration) == start + duration

\* strategy.py:388
end_time(total, start, duration) == Min(total, start + duration)

\* strategy.py:399  j is the 0-based index of the tactic
milestone_time(start, end, j, tactic_count) ==
    start + ((j * (end - start)) \div (tactic_count + 1))

\* the dependency numbered after the milestone's own position
milestone_depends_on_itself(j) ==
    IF j = 0 THEN <<>> ELSE <<"Milestone " \o ToString(j + 1)>>

\* strategy.py:404
milestone_dependencies(j) ==
    IF j = 0 THEN <<>> ELSE <<"Milestone " \o ToString(j)>>

\* strategy.py:398-407
key_milestones(strategy, start, end) ==
    [k \in 1..Len(strategy.tactics) |->
        [milestone |-> "Complete " \o strategy.tactics[k],
         timeline |-> milestone_time(start, end, k - 1, Len(strategy.tactics)),
         dependencies |-> milestone_dependencies(k - 1)]]

\* the phase labelled with its 0-based index
Phase_labelled_from_zero(strategies, total, k) ==
    LET duration == phase_duration(total, Len(strategies))
        start == start_time(k - 1, duration)
        end == end_time(total, start, duration)
    IN  [phase |-> "Phase " \o ToString(k - 1) \o ": " \o strategies[k].strategy,
         start |-> start,
         end |-> end,
         key_milestones |-> key_milestones(strategies[k], start, end)]

\* strategy.py:386-409  the phase of the strategy at 1-based position k
Phase(strategies, total, k) ==
    LET duration == phase_duration(total, Len(strategies))
        start == start_time(k - 1, duration)
        end == end_time(total, start, duration)
    IN  [phase |-> "Phase " \o ToString(k) \o ": " \o strategies[k].strategy,
         start |-> start,
         end |-> end,
         key_milestones |-> key_milestones(strategies[k], start, end)]

\* strategy.py:362-411
generate_implementation_plan(strategies, time_horizon) ==
    [timeline_unit |-> timeline_unit(time_horizon),
     total_duration |-> total_duration(time_horizon),
     phases |-> [k \in 1..Len(strategies) |->
                    Phase(strategies, total_duration(time_horizon), k)]]

---------------------------------------------------------------------------
(* Outcome estimator                                                       *)

\* the default of line 443 naming another objective
MetricsObjectiveDefaultRetention(business_objective) ==
    IF business_objective \in DOMAIN metrics_by_objective
    THEN business_objective
    ELSE "improve_customer_retention"

\* strategy.py:442-443  default metrics if objective not found
MetricsObjective(business_objective) ==
    IF business_objective \in DOMAIN metrics_by_objective
    THEN business_objective
    ELSE "increase_market_share"

\* strategy.py:466  the table impact_ranges.get falls back to
generic_impact_ranges == [low |-> "5-10%", medium |-> "10-20%", high |-> "20-30%"]

\* the tiers with high starting at two strategies
impact_level_high_from_two(strategies) ==
    IF Len(strategies) >= 2 THEN "high"
    ELSE IF Len(strategies) <= 1 THEN "low"
    ELSE "medium"

\* strategy.py:457-461
impact_level(strategies) ==
    IF Len(strategies) >= 3 THEN "high"
    ELSE IF Len(strategies) <= 1 THEN "low"
    ELSE "medium"

\* strategy.py:464-467  looked up under the objective as reassigned at line 443
impact_range(business_objective, level) ==
    IF business_objective \in DOMAIN impact_ranges
    THEN impact_ranges[business_objective][level]
    ELSE generic_impact_ranges[level]

\* strategy.py:474  s.split(sep)[0] for a one-character sep
SplitFirst(s, sep) ==
    IF Contains(sep, s)
    THEN LET i == CHOOSE k \in 1..Len(s) :
                     /\ SubSeq(s, k, k) = sep
                     /\ \A m \in 1..(k - 1) : SubSeq(s, m, m) # sep
         IN  SubSeq(s, 1, i - 1)
    ELSE s

\* strategy.py:479-491
get_timeline_to_results(business_objective) ==
    IF business_objective \in DOMAIN timelines
    THEN timelines[business_objective]
    ELSE "3-6 months for initial results, 6-12 months for full impact"

\* the estimator looking up the impact range under the objective as passed
generate_expected_outcomes_as_passed(business_objective, strategies) ==
    LET objective == MetricsObjective(business_objective)
        primary == metrics_by_objective[objective].primary
        level == impact_level(strategies)
        range == impact_range(business_objective, level)
    IN  [primary_metrics |-> primary,
         secondary_metrics |-> metrics_by_objective[objective].secondary,
         estimated_impact |->
            [overall_impact |-> "Expected " \o level \o " impact with " \o range
                                \o " improvement in primary metrics",
             timeline_to_results |-> get_timeline_to_results(objective),
             key_performance_indicators |-> SubSeq(primary, 1, Min(2, Len(primary))),
             success_criteria |-> "Achieve minimum " \o SplitFirst(range, "-")
                                  \o "% improvement in primary metrics"]]

\* strategy.py:413-477
generate_expected_outcomes(business_objective, strategies) ==
    LET objective == MetricsObjective(business_objective)
        primary == metrics_by_objective[objective].primary
        level == impact_level(strategies)
        range == impact_range(objective, level)
    IN  [primary_metrics |-> primary,
         secondary_metrics |-> metrics_by_objective[objective].secondary,
         estimated_impact |->
            [overall_impact |-> "Expected " \o level \o " impact with " \o range
                                \o " improvement in primary metrics",
             timeline_to_results |-> get_timeline_to_results(objective),
             key_performance_indicators |-> SubSeq(primary, 1, Min(2, Len(primary))),
             success_criteria |-> "Achieve minimum " \o SplitFirst(range, "-")
                                  \o "% improvement in primary metrics"]]

---------------------------------------------------------------------------
(* Risk assessor                                                           *)

\* the elements of a list
Range(seq) == { seq[i] : i \in 1..Len(seq) }

\* strategy.py:546-547, 552-553  append unless already present
AppendNew(acc, x) == IF InSeq(x, acc) THEN acc ELSE Append(acc, x)

RECURSIVE AppendAllNew(_, _)
\* strategy.py:545-547
AppendAllNew(acc, xs) ==
    IF xs = <<>> THEN acc ELSE AppendAllNew(AppendNew(acc, Head(xs)), Tail(xs))

\* a risk list kept on the tool: what the previous call left in it
key_risks_of_previous_call ==
    IF pc = "done" /\ op = "recommend" THEN result.risk_assessment.key_risks ELSE <<>>

\* strategy.py:496  the risk list a call starts from
initial_key_risks == <<>>

\* strategy.py:544  the default risks of a strategy, none when the name is not in the table
DefaultRisks(strategy_name) ==
    IF strategy_name \in DOMAIN common_risks THEN common_risks[strategy_name] ELSE <<>>

RECURSIVE StrategyRisks(_, _)
\* strategy.py:540-547
StrategyRisks(acc, strategies) ==
    IF strategies = <<>> THEN acc
    ELSE StrategyRisks(AppendAllNew(acc, DefaultRisks(Head(strategies).strategy)),
                       Tail(strategies))

\* the challenge entered as the caller gave it, without the prefix
challenge_as_given(challenge) == challenge

\* strategy.py:551
challenge_risk(challenge) == "Existing challenge: " \o challenge

RECURSIVE ChallengeRisks(_, _)
\* strategy.py:550-553
ChallengeRisks(acc, current_challenges) ==
    IF current_challenges = <<>> THEN acc
    ELSE ChallengeRisks(AppendNew(acc, challenge_risk(Head(current_challenges))),
                        Tail(current_challenges))

\* the accumulated risks without the limit
KeepAllRisks(risks) == risks

\* strategy.py:556  limit to top 5 risks
TopRisks(risks) == SubSeq(risks, 1, Min(5, Len(risks)))

\* the keyword chain testing competitive and retaliation before pricing and margin
mitigation_competitive_first(risk) ==
    LET r == Lower(risk)
    IN  IF Contains("competitive", r) \/ Contains("retaliation", r)
        THEN "Develop scenario planning for competitive responses; prepare contingency plans"
        ELSE IF Contains("pricing", r) \/ Contains("margin", r)
        THEN "Implement value-based pricing strategy with tiered options to protect margins"
        ELSE IF Contains("delay", r) \/ Contains("timeline", r)
        THEN "Implement agile methodology with regular milestones and flexible resource allocation"
        ELSE IF Contains("cost", r) \/ Contains("budget", r)
        THEN "Establish clear budget thresholds with stage-gate approach; prioritize initiatives by ROI"
        ELSE IF Contains("adoption", r) \/ Contains("engagement", r)
        THEN "Develop staged rollout with feedback loops; create targeted incentives for early adoption"
        ELSE IF Contains("measurement", r) \/ Contains("roi", r)
        THEN "Implement comprehensive attribution model; establish proxy metrics for long-term initiatives"
        ELSE IF Contains("resource", r)
        THEN "Create flexible resourcing plan with external partner options; prioritize initiatives"
        ELSE "Establish monitoring system with early warning indicators; create contingency plans"

\* strategy.py:561-576
mitigation(risk) ==
    LET r == Lower(risk)
    IN  IF Contains("pricing", r) \/ Contains("margin", r)
        THEN "Implement value-based pricing strategy with tiered options to protect margins"
        ELSE IF Contains("competitive", r) \/ Contains("retaliation", r)
        THEN "Develop scenario planning for competitive responses; prepare contingency plans"
        ELSE IF Contains("delay", r) \/ Contains("timeline", r)
        THEN "Implement agile methodology with regular milestones and flexible resource allocation"
        ELSE IF Contains("cost", r) \/ Contains("budget", r)
        THEN "Establish clear budget thresholds with stage-gate approach; prioritize initiatives by ROI"
        ELSE IF Contains("adoption", r) \/ Contains("engagement", r)
        THEN "Develop staged rollout with feedback loops; create targeted incentives for early adoption"
        ELSE IF Contains("measurement", r) \/ Contains("roi", r)
        THEN "Implement comprehensive attribution model; establish proxy metrics for long-term initiatives"
        ELSE IF Contains("resource", r)
        THEN "Create flexible resourcing plan with external partner options; prioritize initiatives"
        ELSE "Establish monitoring system with early warning indicators; create contingency plans"

\* the assessor entering the challenges before the strategies' risks
generate_risk_assessment_challenges_first(strategies, current_challenges) ==
    LET accumulated == StrategyRisks(ChallengeRisks(initial_key_risks, current_challenges),
                                     strategies)
        key_risks == TopRisks(accumulated)
    IN  [key_risks |-> key_risks,
         mitigation_strategies |-> [risk \in Range(key_risks) |-> mitigation(risk)]]

\* strategy.py:493-578
generate_risk_assessment(strategies, current_challenges) ==
    LET accumulated == ChallengeRisks(StrategyRisks(initial_key_risks, strategies),
                                      current_challenges)
        key_risks == TopRisks(accumulated)
    IN  [key_risks |-> key_risks,
         mitigation_strategies |-> [risk \in Range(key_risks) |-> mitigation(risk)]]

---------------------------------------------------------------------------
(* Budget allocator                                                        *)

\* strategy.py:589-595
categories ==
    <<"Media & Advertising", "Content Production", "Technology & Tools",
      "Research & Analysis", "Personnel & Resources">>

\* int(round(num / den)) for num >= 0 and den > 0: Python rounds a tie to the even
\* neighbour
RoundHalfEven(num, den) ==
    LET q == num \div den
        r == num % den
    IN  IF 2 * r < den THEN q
        ELSE IF 2 * r > den THEN q + 1
        ELSE IF q % 2 = 0 THEN q ELSE q + 1

\* the weight without its minimum of 0.3
weight_without_minimum(i) == 100 - 15 * i

\* strategy.py:603-604  max(0.3, 1.0 - i * 0.15), in hundredths; i is 0-based
weight(i) == Max(30, 100 - 15 * i)

RECURSIVE total_weight(_)
\* strategy.py:607  the sum of the weights of count strategies, in hundredths
total_weight(count) ==
    IF count = 0 THEN 0 ELSE weight(count - 1) + total_weight(count - 1)

\* the percentage rounded up instead of to the nearest integer
allocation_pct_rounded_up(i, count) ==
    (weight(i) * 100 + total_weight(count) - 1) \div total_weight(count)

\* strategy.py:608-612  int(round(weights[i] / total_weight * 100))
allocation_pct(i, count) == RoundHalfEven(weight(i) * 100, total_weight(count))

\* strategy.py:611-613  a later strategy of the same name overwrites the entry
allocation_by_strategy(strategies) ==
    [name \in { strategies[k].strategy : k \in 1..Len(strategies) } |->
        LET last == CHOOSE k \in 1..Len(strategies) :
                        /\ strategies[k].strategy = name
                        /\ \A m \in (k + 1)..Len(strategies) : strategies[m].strategy # name
        IN  ToString(allocation_pct(last - 1, Len(strategies))) \o "%"]

\* the tests with Content tried before Digital and Campaign
category_weights_content_first(strategy_name) ==
    IF Contains("Content", strategy_name)
    THEN <<20, 45, 10, 10, 15>>
    ELSE IF Contains("Digital", strategy_name) \/ Contains("Campaign", strategy_name)
    THEN <<40, 25, 15, 10, 10>>
    ELSE IF Contains("Product", strategy_name)
    THEN <<15, 20, 25, 20, 20>>
    ELSE IF Contains("Loyalty", strategy_name) \/ Contains("Experience", strategy_name)
    THEN <<10, 15, 35, 15, 25>>
    ELSE <<25, 20, 20, 15, 20>>

\* strategy.py:628-657  the weights one strategy adds to the categories
category_weights(strategy_name) ==
    IF Contains("Digital", strategy_name) \/ Contains("Campaign", strategy_name)
    THEN <<40, 25, 15, 10, 10>>
    ELSE IF Contains("Content", strategy_name)
    THEN <<20, 45, 10, 10, 15>>
    ELSE IF Contains("Product", strategy_name)
    THEN <<15, 20, 25, 20, 20>>
    ELSE IF Contains("Loyalty", strategy_name) \/ Contains("Experience", strategy_name)
    THEN <<10, 15, 35, 15, 25>>
    ELSE <<25, 20, 20, 15, 20>>

RECURSIVE category_allocations(_)
\* strategy.py:616-657  the summed weights, in the order of categories
category_allocations(strategies) ==
    IF strategies = <<>> THEN <<0, 0, 0, 0, 0>>
    ELSE LET w == category_weights(Head(strategies).strategy)
             rest == category_allocations(Tail(strategies))
         IN  [c \in 1..Len(categories) |-> w[c] + rest[c]]

RECURSIVE SumSeq(_)
\* sum(...)
SumSeq(seq) == IF seq = <<>> THEN 0 ELSE Head(seq) + SumSeq(Tail(seq))

\* strategy.py:663  int(round(allocation / total_allocation * 100))
normalized_pct(allocation, total_allocation) ==
    RoundHalfEven(allocation * 100, total_allocation)

\* strategy.py:660-664
allocation_by_category(strategies) ==
    IF strategies = <<>> THEN <<>>
    ELSE LET allocations == category_allocations(strategies)
             total_allocation == SumSeq(allocations)
         IN  [category \in Range(categories) |->
                 LET c == CHOOSE k \in 1..Len(categories) : categories[k] = category
                 IN  ToString(normalized_pct(allocations[c], total_allocation)) \o "%"]

\* strategy.py:580-666
generate_budget_allocation(strategies, available_budget) ==
    [budget_level |-> available_budget,
     allocation_by_strategy |-> allocation_by_strategy(strategies),
     allocation_by_category |-> allocation_by_category(strategies)]

---------------------------------------------------------------------------
(* The entry point                                                         *)

None == <<>>

Some(x) == <<x>>

\* strategy.py:74-75  current_challenges defaults to the empty list
ChallengesOrEmpty(current_challenges) ==
    IF current_challenges = None THEN <<>> ELSE current_challenges[1]

\* the test "is not None" in place of the truth test
BudgetNotNone(available_budget) == available_budget # None

\* strategy.py:109  if available_budget: neither None nor the empty string
BudgetGiven(available_budget) ==
    available_budget # None /\ available_budget[1] # ""

\* strategy.py:50-112  StrategyRecommendationTool._run
Run(business_objective, market_segment, time_horizon, available_budget, current_challenges) ==
    LET objective == Normalize(business_objective)
        segment == Normalize(market_segment)
        horizon == Normalize(time_horizon)
        strategies == get_strategies_by_objective(objective, segment, horizon)
        base ==
            [business_objective |-> objective,
             market_segment |-> segment,
             time_horizon |-> horizon,
             available_budget |-> available_budget,
             recommended_strategies |-> strategies,
             implementation_plan |-> generate_implementation_plan(strategies, horizon),
             expected_outcomes |-> generate_expected_outcomes(objective, strategies),
             risk_assessment |->
                generate_risk_assessment(strategies, ChallengesOrEmpty(current_challenges))]
    IN  IF BudgetGiven(available_budget)
        THEN base @@ ("budget_allocation" :>
                        generate_budget_allocation(strategies, available_budget[1]))
        ELSE base

---------------------------------------------------------------------------
(* Callers' inputs                                                         *)

\* all lists of at most n elements of S
ListsUpTo(S, n) == UNION { [1..k -> S] : k \in 0..n }

ObjectiveInputs ==
    { "increase_market_share", "improve_customer_retention", "launch_new_product",
      "increase_brand_awareness", "Launch New Product", "unknown_objective", "" }

HorizonInputs == { "short_term", "medium_term", "long_term", "Short Term", "forever" }

SegmentWords ==
    { "b2c", "retail", "B2B", "tech", "saas", "subscription", "price", "sensitive",
      "healthcare" }

MaxSegmentWords == 2

RECURSIVE JoinWords(_)
\* the words of a segment separated by single spaces
JoinWords(ws) ==
    IF ws = <<>> THEN ""
    ELSE IF Len(ws) = 1 THEN ws[1]
    ELSE ws[1] \o " " \o JoinWords(Tail(ws))

SegmentInputs == { JoinWords(ws) : ws \in ListsUpTo(SegmentWords, MaxSegmentWords) }

\* a catalog template as the selector returns it
Selected(objective, k) == strategy_copy(strategy_templates[objective][k])

\* a caller's own strategy: not in the risk table, no tactics
WebinarStrategy ==
    [strategy |-> "Community Webinars",
     description |-> "Run monthly webinars.",
     tactics |-> <<>>]

\* a caller's own strategy whose name passes several of the category tests
MixedStrategy ==
    [strategy |-> "Product Content Campaign",
     description |-> "Promote the product with content.",
     tactics |-> <<"Draft the content calendar", "Publish the launch article">>]

PlanPool == { Selected("increase_market_share", 1), WebinarStrategy, MixedStrategy }

MaxPlanStrategies == 6

AssessStrategyLists ==
    { <<>>,
      <<WebinarStrategy>>,
      <<Selected("increase_market_share", 1)>>,
      <<Selected("increase_brand_awareness", 1)>>,
      <<Selected("increase_market_share", 1), Selected("increase_market_share", 4)>>,
      <<Selected("improve_customer_retention", 1), WebinarStrategy>>,
      <<Selected("increase_market_share", 1), Selected("increase_market_share", 1)>>,
      <<Selected("increase_market_share", 2), Selected("increase_market_share", 3),
        Selected("launch_new_product", 1)>> }

ChallengePool == { "Limited budget", "Competitive pricing pressure", "Staff turnover" }

MaxChallenges == 6

AllocatePool ==
    { Selected("increase_market_share", 1), Selected("increase_market_share", 2),
      Selected("increase_market_share", 4), Selected("improve_customer_retention", 1),
      Selected("increase_brand_awareness", 1), MixedStrategy }

MaxAllocateStrategies == 3

\* lists of five, six and seven strategies of different names: the weight of a
\* strategy stops decreasing from the sixth on
AllocateLongLists ==
    LET all == << Selected("increase_market_share", 1), Selected("increase_market_share", 2),
                  Selected("increase_market_share", 4), Selected("improve_customer_retention", 1),
                  Selected("increase_brand_awareness", 1), MixedStrategy, WebinarStrategy >>
    IN  { SubSeq(all, 1, n) : n \in 5..7 }

BudgetInputs == { None, Some(""), Some("medium"), Some("50000") }

RecommendObjectives ==
    { "increase_market_share", "improve_customer_retention", "Launch New Product",
      "increase_brand_awareness", "unknown objective", "" }

RecommendSegments ==
    { "b2c retail", "enterprise saas", "B2B", "subscription", "price sensitive",
      "healthcare" }

RecommendHorizons == { "short_term", "Medium Term", "long_term", "forever" }

RecommendChallenges ==
    { None, Some(<<>>), Some(<<"Limited budget">>),
      Some(<<"Staff turnover", "Limited budget", "Staff turnover">>) }

RepeatObjectives == { "increase_market_share", "Launch New Product", "unknown objective" }

RepeatSegments == { "b2c retail", "healthcare" }

RepeatChallenges == { None, Some(<<"Limited budget">>) }

\* calls counted after the remembered one, up to this many
MaxLater == 2

\* threads calling recommend on one tool at the same time
NumThreads == 2

Threads == 1..NumThreads

ConcurrentInputs ==
    { [business_objective |-> "increase_market_share", market_segment |-> "b2c retail",
       time_horizon |-> "short_term", available_budget |-> Some("medium"),
       current_challenges |-> Some(<<"Limited budget">>)],
      [business_objective |-> "Launch New Product", market_segment |-> "B2B",
       time_horizon |-> "Medium Term", available_budget |-> None,
       current_challenges |-> None],
      [business_objective |-> "unknown objective", market_segment |-> "healthcare",
       time_horizon |-> "forever", available_budget |-> Some(""),
       current_challenges |-> Some(<<>>)] }

\* a thread that is not in a call
IdleCall ==
    [pc |-> "idle", args |-> <<>>, objective |-> "", segment |-> "", horizon |-> "",
     challenges |-> <<>>, strategies |-> <<>>, result |-> <<>>, overlapped |-> FALSE]

\* what run is called with
QueryTexts ==
    { "Analyze market trends in the tech industry", "compare competitors", "q", "" }

OptionalQueryTexts == { None } \cup { Some(q) : q \in QueryTexts }

\* what the agent executor does when invoked: it returns its outputs or raises
ExecutorOutcomes ==
    { [kind |-> "returns", output |-> o, message |-> ""] :
        o \in { "Mocked response from the marketing analyst agent", "ok", "" } }
    \cup
    { [kind |-> "raises", output |-> "", message |-> m] :
        m \in { "Test exception", "rate limit", "" } }

\* before the agent is constructed
NoAgent ==
    [pc |-> "unbuilt", executor |-> "", input_text |-> None, query |-> None,
     invoked |-> <<>>, outcome |-> None, result |-> None]

\* the lines a user enters in interactive mode
InteractiveLines == { "exit", "Quit", "Q", "", "  ", "trends", " q", "exit now" }

\* lines read in one session, up to this many
MaxLines == 3

\* before interactive mode is started
NoSession == [pc |-> "off", entered |-> <<>>, runs |-> <<>>, last |-> "none"]

---------------------------------------------------------------------------
(* The operations                                                          *)

NoResult == <<>>

Init ==
    /\ pc = "idle"
    /\ op = "none"
    /\ args = <<>>
    /\ result = NoResult
    /\ prior = None
    /\ calls = [t \in Threads |-> IdleCall]
    /\ agent = NoAgent
    /\ session = NoSession

\* recommend(...): strategy.py:50-112, called with no earlier result in hand
Recommend ==
    /\ pc = "idle"
    /\ \E o \in RecommendObjectives, s \in RecommendSegments, h \in RecommendHorizons,
          b \in BudgetInputs, c \in RecommendChallenges :
          /\ args' = [business_objective |-> o, market_segment |-> s, time_horizon |-> h,
                      available_budget |-> b, current_challenges |-> c]
          /\ result' = Run(o, s, h, b, c)
    /\ op' = "recommend"
    /\ pc' = "done"
    /\ UNCHANGED <<prior, calls, agent, session>>

\* select(objective, segment, horizon): strategy.py:96, on the normalized inputs
Select ==
    /\ pc = "idle"
    /\ \E o \in { Normalize(x) : x \in ObjectiveInputs },
          s \in { Normalize(x) : x \in SegmentInputs },
          h \in { Normalize(x) : x \in HorizonInputs } :
          /\ args' = [business_objective |-> o, market_segment |-> s, time_horizon |-> h]
          /\ result' = get_strategies_by_objective(o, s, h)
    /\ op' = "select"
    /\ pc' = "done"
    /\ UNCHANGED <<prior, calls, agent, session>>

\* plan(strategies, horizon): strategy.py:362-411
Plan ==
    /\ pc = "idle"
    /\ \E strategies \in ListsUpTo(PlanPool, MaxPlanStrategies),
          h \in { Normalize(x) : x \in HorizonInputs } :
          /\ args' = [strategies |-> strategies, time_horizon |-> h]
          /\ result' = generate_implementation_plan(strategies, h)
    /\ op' = "plan"
    /\ pc' = "done"
    /\ UNCHANGED <<prior, calls, agent, session>>

\* estimate(objective, strategies): strategy.py:413-477
Estimate ==
    /\ pc = "idle"
    /\ \E o \in { Normalize(x) : x \in ObjectiveInputs },
          strategies \in AssessStrategyLists :
          /\ args' = [business_objective |-> o, strategies |-> strategies]
          /\ result' = generate_expected_outcomes(o, strategies)
    /\ op' = "estimate"
    /\ pc' = "done"
    /\ UNCHANGED <<prior, calls, agent, session>>

\* assess(strategies, known_challenges): strategy.py:493-578
Assess ==
    /\ pc = "idle"
    /\ \E strategies \in AssessStrategyLists,
          challenges \in ListsUpTo(ChallengePool, MaxChallenges) :
          /\ args' = [strategies |-> strategies, current_challenges |-> challenges]
          /\ result' = generate_risk_assessment(strategies, challenges)
    /\ op' = "assess"
    /\ pc' = "done"
    /\ UNCHANGED <<prior, calls, agent, session>>

\* allocate(strategies, budget_level): strategy.py:580-666
Allocate ==
    /\ pc = "idle"
    /\ \E strategies \in ListsUpTo(AllocatePool, MaxAllocateStrategies) \cup AllocateLongLists,
          b \in { "low", "medium" } :
          /\ args' = [strategies |-> strategies, available_budget |-> b]
          /\ result' = generate_budget_allocation(strategies, b)
    /\ op' = "allocate"
    /\ pc' = "done"
    /\ UNCHANGED <<prior, calls, agent, session>>

\* the caller drops the returned value
Discard ==
    /\ pc = "done"
    /\ pc' = "idle"
    /\ op' = "none"
    /\ args' = <<>>
    /\ result' = NoResult
    /\ UNCHANGED <<prior, calls, agent, session>>

\* recommend(...) called again on the same tool, whatever it returned before
RecommendAgain ==
    /\ op \in { "none", "recommend" }
    /\ \E o \in RepeatObjectives, s \in RepeatSegments, c \in RepeatChallenges :
          /\ args' = [business_objective |-> o, market_segment |-> s,
                      time_horizon |-> "short_term", available_budget |-> Some("medium"),
                      current_challenges |-> c]
          /\ result' = Run(o, s, "short_term", Some("medium"), c)
    /\ op' = "recommend"
    /\ pc' = "done"
    /\ prior' = IF prior = None THEN None
                ELSE Some([prior[1] EXCEPT !.later = Min(@ + 1, MaxLater)])
    /\ UNCHANGED <<calls, agent, session>>

\* the caller keeps the call that has just returned, to compare later calls with it
Remember ==
    /\ pc = "done"
    /\ op = "recommend"
    /\ prior = None
    /\ prior' = Some([args |-> args, result |-> result, later |-> 0])
    /\ UNCHANGED <<pc, op, args, result, calls, agent, session>>

Next == Recommend \/ Select \/ Plan \/ Estimate \/ Assess \/ Allocate \/ Discard

Spec == Init /\ [][Next]_vars

NextRepeat == RecommendAgain \/ Remember

\* a caller that calls recommend repeatedly on one tool
SpecRepeat == Init /\ [][NextRepeat]_vars


---------------------------------------------------------------------------
(* Concurrent calls: _run statement by statement, one thread at a time      *)

\* the thread is inside _run
InFlight(t) == calls[t].pc \notin { "idle", "returned" }

\* strategy.py:84-93  the result dict before the stages fill it
result_skeleton(objective, segment, horizon, available_budget) ==
    [business_objective |-> objective,
     market_segment |-> segment,
     time_horizon |-> horizon,
     available_budget |-> available_budget,
     recommended_strategies |-> <<>>,
     implementation_plan |-> <<>>,
     expected_outcomes |-> <<>>,
     risk_assessment |-> <<>>]

\* the strategies of a thread that selected last, as if kept on the tool
strategies_kept_on_tool(t) ==
    LET others == { u \in Threads \ {t} :
                      calls[u].pc \in { "plan", "estimate", "assess", "budget", "return" } }
    IN  IF others = {} THEN calls[t].strategies
        ELSE calls[CHOOSE u \in others : TRUE].strategies

\* strategy.py:96  the local variable strategies the later stages read
strategies_local(t) == calls[t].strategies

\* strategy.py:71-93  the call starts: defaults, normalization, result skeleton
Begin(t) ==
    /\ calls[t].pc = "idle"
    /\ \E a \in ConcurrentInputs :
          LET objective == Normalize(a.business_objective)
              segment == Normalize(a.market_segment)
              horizon == Normalize(a.time_horizon)
              mine == [pc |-> "select", args |-> a, objective |-> objective,
                       segment |-> segment, horizon |-> horizon,
                       challenges |-> ChallengesOrEmpty(a.current_challenges),
                       strategies |-> <<>>,
                       result |-> result_skeleton(objective, segment, horizon,
                                                  a.available_budget),
                       overlapped |-> \E u \in Threads \ {t} : InFlight(u)]
          IN  calls' = [u \in Threads |->
                          IF u = t THEN mine
                          ELSE IF InFlight(u) THEN [calls[u] EXCEPT !.overlapped = TRUE]
                          ELSE calls[u]]
    /\ UNCHANGED <<pc, op, args, result, prior, agent, session>>

\* strategy.py:96-97
StepSelect(t) ==
    /\ calls[t].pc = "select"
    /\ LET strategies == get_strategies_by_objective(calls[t].objective, calls[t].segment,
                                                     calls[t].horizon)
       IN  calls' = [calls EXCEPT ![t].strategies = strategies,
                                  ![t].result.recommended_strategies = strategies,
                                  ![t].pc = "plan"]
    /\ UNCHANGED <<pc, op, args, result, prior, agent, session>>

\* strategy.py:100
StepPlan(t) ==
    /\ calls[t].pc = "plan"
    /\ calls' = [calls EXCEPT
                    ![t].result.implementation_plan =
                        generate_implementation_plan(strategies_local(t), calls[t].horizon),
                    ![t].pc = "estimate"]
    /\ UNCHANGED <<pc, op, args, result, prior, agent, session>>

\* strategy.py:103
StepEstimate(t) ==
    /\ calls[t].pc = "estimate"
    /\ calls' = [calls EXCEPT
                    ![t].result.expected_outcomes =
                        generate_expected_outcomes(calls[t].objective, strategies_local(t)),
                    ![t].pc = "assess"]
    /\ UNCHANGED <<pc, op, args, result, prior, agent, session>>

\* strategy.py:106
StepAssess(t) ==
    /\ calls[t].pc = "assess"
    /\ calls' = [calls EXCEPT
                    ![t].result.risk_assessment =
                        generate_risk_assessment(strategies_local(t), calls[t].challenges),
                    ![t].pc = "budget"]
    /\ UNCHANGED <<pc, op, args, result, prior, agent, session>>

\* strategy.py:109-110
StepBudget(t) ==
    /\ calls[t].pc = "budget"
    /\ calls' = [calls EXCEPT
                    ![t].result =
                        IF BudgetGiven(calls[t].args.available_budget)
                        THEN @ @@ ("budget_allocation" :>
                                generate_budget_allocation(strategies_local(t),
                                    calls[t].args.available_budget[1]))
                        ELSE @,
                    ![t].pc = "return"]
    /\ UNCHANGED <<pc, op, args, result, prior, agent, session>>

\* strategy.py:112
Return(t) ==
    /\ calls[t].pc = "return"
    /\ calls' = [calls EXCEPT ![t].pc = "returned"]
    /\ UNCHANGED <<pc, op, args, result, prior, agent, session>>

\* the thread takes the returned value and is free to call again
Collect(t) ==
    /\ calls[t].pc = "returned"
    /\ calls' = [calls EXCEPT ![t] = IdleCall]
    /\ UNCHANGED <<pc, op, args, result, prior, agent, session>>

NextConcurrent ==
    \E t \in Threads :
        \/ Begin(t)
        \/ StepSelect(t)
        \/ StepPlan(t)
        \/ StepEstimate(t)
        \/ StepAssess(t)
        \/ StepBudget(t)
        \/ Return(t)
        \/ Collect(t)

\* threads calling recommend on one tool, interleaved statement by statement
SpecConcurrent == Init /\ [][NextConcurrent]_vars

---------------------------------------------------------------------------
(* MarketingAnalystAgent.run                                                *)

\* marketing_analyst.py:157-177  the executor _setup_agent builds: in debug mode
\* the plain function simple_executor, otherwise an AgentExecutor
executor_built(debug_mode) ==
    IF debug_mode THEN "simple_executor" ELSE "AgentExecutor"

\* a plain function has no attribute invoke; an AgentExecutor has the method
has_invoke(executor) == executor = "AgentExecutor"

\* marketing_analyst.py:218
final_query(input_text, query) ==
    IF query # None THEN query ELSE input_text

\* marketing_analyst.py:222-225
success_response(output) == [response |-> output, success |-> TRUE]

\* marketing_analyst.py:226-231
error_response(message) ==
    [response |-> "An error occurred: " \o message, success |-> FALSE]

\* str(e) of the AttributeError raised by looking up invoke on a function
no_invoke_message == "'function' object has no attribute 'invoke'"

\* marketing_analyst.py:221  the inputs the executor was invoked with
invocations(executor, input_text, query) ==
    IF has_invoke(executor)
    THEN << [input |-> final_query(input_text, query)] >>
    ELSE << >>

\* marketing_analyst.py:216-231
run_result(executor, outcome) ==
    IF ~has_invoke(executor) THEN error_response(no_invoke_message)
    ELSE IF outcome.kind = "returns" THEN success_response(outcome.output)
    ELSE error_response(outcome.message)

\* MarketingAnalystAgent(...): marketing_analyst.py:92-177
Construct ==
    /\ agent.pc = "unbuilt"
    /\ \E debug_mode \in BOOLEAN :
          agent' = [agent EXCEPT !.pc = "ready", !.executor = executor_built(debug_mode)]
    /\ UNCHANGED <<pc, op, args, result, prior, calls, session>>

\* agent.run(input_text, query): marketing_analyst.py:205-231
AgentRun ==
    /\ agent.pc = "ready"
    /\ \E input_text \in OptionalQueryTexts, query \in OptionalQueryTexts,
          outcome \in ExecutorOutcomes :
          agent' = [agent EXCEPT
                      !.pc = "returned",
                      !.input_text = input_text,
                      !.query = query,
                      !.invoked = invocations(agent.executor, input_text, query),
                      !.outcome = IF has_invoke(agent.executor) THEN Some(outcome) ELSE None,
                      !.result = Some(run_result(agent.executor, outcome))]
    /\ UNCHANGED <<pc, op, args, result, prior, calls, session>>

\* the caller takes the returned dict; the agent can be run again
AgentTake ==
    /\ agent.pc = "returned"
    /\ agent' = [NoAgent EXCEPT !.pc = "ready", !.executor = agent.executor]
    /\ UNCHANGED <<pc, op, args, result, prior, calls, session>>

NextAgent ==
    \/ Construct
    \/ AgentRun
    \/ AgentTake

\* an agent is constructed and run, call after call
SpecAgent == Init /\ [][NextAgent]_vars

---------------------------------------------------------------------------
(* Interactive mode                                                         *)

\* main.py:103  the words that end the loop
exit_words == <<"exit", "quit", "q">>

\* the exit test on the line as entered, without lower()
is_exit_as_entered(query) == InSeq(query, exit_words)

\* main.py:103  query.lower() in ["exit", "quit", "q"]
is_exit(query) == InSeq(Lower(query), exit_words)

RECURSIVE Strip(_)
\* main.py:107  query.strip(), for lines of letters and blanks
Strip(s) ==
    IF s = "" THEN ""
    ELSE IF SubSeq(s, 1, 1) = " " THEN Strip(SubSeq(s, 2, Len(s)))
    ELSE IF SubSeq(s, Len(s), Len(s)) = " " THEN Strip(SubSeq(s, 1, Len(s) - 1))
    ELSE s

\* main.py:107  not query.strip()
is_blank(query) == Strip(query) = ""

\* run_interactive_mode(agent, highlight_terms): main.py:86-97, up to the loop
StartInteractive ==
    /\ session.pc = "off"
    /\ session' = [session EXCEPT !.pc = "reading"]
    /\ UNCHANGED <<pc, op, args, result, prior, calls, agent>>

\* main.py:99-125  one pass of the loop on a line that input() returned; the
\* processing of a query (agent.run, formatting, printing) completes, raises an
\* exception, or is interrupted from the keyboard
ReadLine ==
    /\ session.pc = "reading"
    /\ Len(session.entered) < MaxLines
    /\ \E query \in InteractiveLines, processing \in { "completes", "raises", "interrupted" } :
          LET outcome == IF is_exit(query) THEN "exit"
                         ELSE IF is_blank(query) THEN "blank"
                         ELSE IF processing = "completes" THEN "answered"
                         ELSE IF processing = "raises" THEN "error"
                         ELSE "interrupted"
          IN  session' =
                  [pc |-> IF outcome \in { "exit", "interrupted" } THEN "ended" ELSE "reading",
                   entered |-> Append(session.entered, [line |-> query, outcome |-> outcome]),
                   runs |-> IF outcome \in { "answered", "error", "interrupted" }
                            THEN Append(session.runs, query)
                            ELSE session.runs,
                   last |-> "line"]
    /\ UNCHANGED <<pc, op, args, result, prior, calls, agent>>

\* main.py:101, 120-122  KeyboardInterrupt raised while input() waits
InterruptAtPrompt ==
    /\ session.pc = "reading"
    /\ session' = [session EXCEPT !.pc = "ended", !.last = "interrupt"]
    /\ UNCHANGED <<pc, op, args, result, prior, calls, agent>>

\* main.py:101, 123-125  input() raises EOFError at the end of the input: it is
\* caught as an Exception and the loop goes on
EndOfInput ==
    /\ session.pc = "reading"
    /\ session' = [session EXCEPT !.last = "eof"]
    /\ UNCHANGED <<pc, op, args, result, prior, calls, agent>>

NextInteractive ==
    \/ StartInteractive
    \/ ReadLine
    \/ InterruptAtPrompt
    \/ EndOfInput

\* one session of interactive mode
SpecInteractive == Init /\ [][NextInteractive]_vars

---------------------------------------------------------------------------
(* Properties                                                              *)

\* a call of the operation has returned
Returned(operation) == pc = "done" /\ op = operation

DigitChars == "0123456789"

RECURSIVE ParseInt(_)
\* the number a string of decimal digits denotes
ParseInt(s) ==
    IF s = "" THEN 0
    ELSE LET last == SubSeq(s, Len(s), Len(s))
             d == CHOOSE k \in 1..Len(DigitChars) : SubSeq(DigitChars, k, k) = last
         IN  10 * ParseInt(SubSeq(s, 1, Len(s) - 1)) + (d - 1)

\* the integer of a percentage string such as "25%"
ParsePercent(s) == ParseInt(SubSeq(s, 1, Len(s) - 1))

RECURSIVE SumOver(_, _)
\* the sum of the percentages a dict holds under the keys
SumOver(dict, keys) ==
    IF keys = {} THEN 0
    ELSE LET k == CHOOSE x \in keys : TRUE
         IN  ParsePercent(dict[k]) + SumOver(dict, keys \ {k})

\* the catalog list of an objective, increase_market_share's when it has none
CatalogOf(objective) ==
    IF objective \in DOMAIN strategy_templates
    THEN strategy_templates[objective]
    ELSE strategy_templates["increase_market_share"]

\* a template stripped to name, description and tactics
Stripped(t) ==
    [strategy |-> t.strategy, description |-> t.description, tactics |-> t.tactics]

\* the template carries the horizon in its horizon tags
CarriesHorizon(t, horizon) == \E k \in 1..Len(t.time_horizon) : t.time_horizon[k] = horizon

\* one of the template's segment tags is a substring of the segment
MatchesSegment(t, segment) ==
    \E k \in 1..Len(t.suitable_for) : Contains(t.suitable_for[k], segment)

\* the segment contains one of the keywords b2b, b2c, retail, tech
HasKnownKeyword(segment) == \E w \in { "b2b", "b2c", "retail", "tech" } : Contains(w, segment)

RECURSIVE Keep(_, _)
\* the templates of the list whose position is in the set, stripped, in list order
Keep(templates, positions) ==
    IF templates = <<>> THEN <<>>
    ELSE LET n == Len(templates)
             front == Keep(SubSeq(templates, 1, n - 1), positions)
         IN  IF n \in positions THEN Append(front, Stripped(templates[n])) ELSE front

\* C1: for any non-empty strategy list and any budget level, the five category
\* percentages of allocate(...).allocation_by_category sum to exactly 100.
C1_CategoryPercentagesSumTo100 ==
    (Returned("allocate") /\ args.strategies # <<>>) =>
        /\ DOMAIN result.allocation_by_category = Range(categories)
        /\ SumOver(result.allocation_by_category, Range(categories)) = 100

\* C2: for every objective, segment and horizon the selector returns a non-empty
\* list, no longer than the catalog list of the (possibly defaulted) objective, and
\* every returned strategy is a template of that list.
C2_SelectionNonEmptyWithinCatalog ==
    Returned("select") =>
        LET catalog == CatalogOf(args.business_objective)
        IN  /\ result # <<>>
            /\ Len(result) <= Len(catalog)
            /\ \A i \in 1..Len(result) :
                  \E k \in 1..Len(catalog) : result[i] = Stripped(catalog[k])

\* C2 witness: an objective the catalog lacks and a horizon no template carries, yet
\* two strategies are returned.
C2_Witness ==
    /\ Returned("select")
    /\ args.business_objective \notin DOMAIN strategy_templates
    /\ \A k \in 1..Len(CatalogOf(args.business_objective)) :
          ~CarriesHorizon(CatalogOf(args.business_objective)[k], args.time_horizon)
    /\ Len(result) = 2

\* the positions of the horizon-eligible templates that match the segment
MatchedPositions(catalog, segment, horizon) ==
    { k \in 1..Len(catalog) :
        CarriesHorizon(catalog[k], horizon) /\ MatchesSegment(catalog[k], segment) }

\* the positions of the horizon-eligible templates
EligiblePositions(catalog, horizon) ==
    { k \in 1..Len(catalog) : CarriesHorizon(catalog[k], horizon) }

\* C3 as stated: when at least one horizon-eligible template matches the segment,
\* the selector returns exactly the matched templates, in catalog order.
C3_ExactlyTheMatched ==
    Returned("select") =>
        LET catalog == CatalogOf(args.business_objective)
            matched == MatchedPositions(catalog, args.market_segment, args.time_horizon)
        IN  matched # {} => result = Keep(catalog, matched)

\* C3 amended: when at least one horizon-eligible template matches the segment, the
\* selector returns exactly the matched templates, in catalog order, if the segment
\* contains one of b2b, b2c, retail, tech; otherwise it returns every
\* horizon-eligible template, matched or not, in catalog order.
C3_MatchedOrAllEligible ==
    Returned("select") =>
        LET catalog == CatalogOf(args.business_objective)
            matched == MatchedPositions(catalog, args.market_segment, args.time_horizon)
        IN  matched # {} =>
                result = IF HasKnownKeyword(args.market_segment)
                         THEN Keep(catalog, matched)
                         ELSE Keep(catalog, EligiblePositions(catalog, args.time_horizon))

\* C3 witness: a segment without any of the four keywords matches one template, and
\* an eligible template that does not match is returned as well.
C3_Witness ==
    /\ Returned("select")
    /\ ~HasKnownKeyword(args.market_segment)
    /\ LET catalog == CatalogOf(args.business_objective)
           matched == MatchedPositions(catalog, args.market_segment, args.time_horizon)
       IN  /\ matched # {}
           /\ Len(result) > Cardinality(matched)

\* a call that builds an implementation plan has returned
PlanReturned == Returned("plan") \/ Returned("recommend")

\* the plan it returned
ThePlan == IF op = "plan" THEN result ELSE result.implementation_plan

\* the strategies the plan was built for
PlannedStrategies == IF op = "plan" THEN args.strategies ELSE result.recommended_strategies

\* a call that builds a risk assessment has returned
RiskReturned == Returned("assess") \/ Returned("recommend")

\* the risk assessment it returned
TheRisks == IF op = "assess" THEN result ELSE result.risk_assessment

\* C4: for every horizon and every list of 1 to 4 strategies (what the selector can
\* return), each phase has 0 <= start <= end <= total_duration, and both the start
\* offsets and the end offsets are non-decreasing in phase order.
C4_PhasesBoundedAndMonotone ==
    (/\ PlanReturned
     /\ Len(PlannedStrategies) >= 1
     /\ \E o \in DOMAIN strategy_templates :
           Len(PlannedStrategies) <= Len(strategy_templates[o])) =>
        LET phases == ThePlan.phases
        IN  /\ Len(phases) = Len(PlannedStrategies)
            /\ \A i \in 1..Len(phases) :
                  /\ 0 <= phases[i].start
                  /\ phases[i].start <= phases[i].end
                  /\ phases[i].end <= ThePlan.total_duration
            /\ \A i \in 1..Len(phases), j \in 1..Len(phases) :
                  i < j => /\ phases[i].start <= phases[j].start
                           /\ phases[i].end <= phases[j].end

\* C4 witness: a plan of four phases whose last phase is cut at the end of the
\* timeline.
C4_Witness ==
    /\ Returned("plan")
    /\ Len(result.phases) = 4
    /\ result.phases[4].end = result.total_duration
    /\ result.phases[4].end - result.phases[4].start
          < result.phases[1].end - result.phases[1].start

\* C5: in every phase the first milestone has no dependency and the milestone at
\* 0-based index j >= 1 has exactly one, "Milestone j", the 1-based number of its
\* predecessor in the same phase; none depends on itself or on a later milestone.
C5_MilestoneDependsOnPredecessor ==
    PlanReturned =>
        \A i \in 1..Len(ThePlan.phases) :
            LET milestones == ThePlan.phases[i].key_milestones
            IN  \A k \in 1..Len(milestones) :
                    /\ k = 1 => milestones[k].dependencies = <<>>
                    /\ k > 1 =>
                          /\ milestones[k].dependencies = <<"Milestone " \o ToString(k - 1)>>
                          /\ \A n \in k..Len(milestones) :
                                milestones[k].dependencies[1] # "Milestone " \o ToString(n)

\* C5 witness: a phase with four milestones, the last depending on "Milestone 3".
C5_Witness ==
    /\ Returned("plan")
    /\ \E i \in 1..Len(result.phases) :
          /\ Len(result.phases[i].key_milestones) = 4
          /\ result.phases[i].key_milestones[4].dependencies = <<"Milestone 3">>

\* C6: for any strategy list and any challenge list (duplicates and more than five
\* included), key_risks has at most 5 entries, no duplicates, and the keys of
\* mitigation_strategies are exactly the risks of key_risks.
C6_RisksBoundedAndMitigated ==
    RiskReturned =>
        /\ Len(TheRisks.key_risks) <= 5
        /\ \A i \in 1..Len(TheRisks.key_risks), j \in 1..Len(TheRisks.key_risks) :
              i # j => TheRisks.key_risks[i] # TheRisks.key_risks[j]
        /\ DOMAIN TheRisks.mitigation_strategies = Range(TheRisks.key_risks)

\* C6 witness: six challenges with a duplicate among them, and a challenge whose
\* risk was truncated away.
C6_Witness ==
    /\ Returned("assess")
    /\ Len(args.current_challenges) = 6
    /\ \E i \in 1..6, j \in 1..6 :
          i # j /\ args.current_challenges[i] = args.current_challenges[j]
    /\ Len(result.key_risks) = 5
    /\ \E i \in 1..6 :
          ("Existing challenge: " \o args.current_challenges[i])
              \notin Range(result.key_risks)

LowerUnderscore(s) == ReplaceSpaces(Lower(s))

\* the parts of a recommend result that do not echo the objective
ResultParts ==
    { "recommended_strategies", "implementation_plan", "expected_outcomes",
      "risk_assessment", "budget_allocation" }

\* C8: for an objective the catalog lacks, recommend returns the strategies, plan,
\* outcomes, risk assessment and budget allocation of
\* recommend("increase_market_share", ...) with the same other arguments; only the
\* echoed business_objective differs.
C8_UnknownObjectiveIsMarketShare ==
    (Returned("recommend") /\ LowerUnderscore(args.business_objective) \notin DOMAIN strategy_templates) =>
        LET reference == Run("increase_market_share", args.market_segment, args.time_horizon,
                             args.available_budget, args.current_challenges)
        IN  /\ DOMAIN result = DOMAIN reference
            /\ \A part \in ResultParts \cap DOMAIN reference : result[part] = reference[part]
            /\ \A part \in DOMAIN reference \ (ResultParts \cup { "business_objective" }) :
                  result[part] = reference[part]
            /\ result.business_objective = LowerUnderscore(args.business_objective)
            /\ reference.business_objective = "increase_market_share"

\* C8 witness: an unknown objective, a budget, and three strategies, so that the
\* impact range is the high one.
C8_Witness ==
    /\ Returned("recommend")
    /\ result.business_objective = "unknown_objective"
    /\ "budget_allocation" \in DOMAIN result
    /\ Len(result.recommended_strategies) >= 2

\* C9 as stated: the result has a budget_allocation field exactly when the caller
\* supplied available_budget, whatever non-null string it is.
C9_AllocationIffBudgetSupplied ==
    Returned("recommend") =>
        ("budget_allocation" \in DOMAIN result <=> args.available_budget # None)

\* C9 amended: the result has a budget_allocation field exactly when the caller
\* supplied a non-empty available_budget; when it is omitted, null or the empty
\* string the key is absent.
C9_AllocationIffBudgetNonEmpty ==
    Returned("recommend") =>
        ("budget_allocation" \in DOMAIN result <=>
            (args.available_budget # None /\ args.available_budget # Some("")))

\* C9 witness: the caller passed the empty string and the result has no
\* budget_allocation field.
C9_Witness ==
    /\ Returned("recommend")
    /\ args.available_budget = Some("")
    /\ "budget_allocation" \notin DOMAIN result

\* C10: recommend(o, s, h, b, c) = recommend(N(o), N(s), N(h), b, c), N is
\* idempotent, and the result echoes N(o), N(s), N(h).
C10_NormalizationInvariance ==
    Returned("recommend") =>
        LET o == LowerUnderscore(args.business_objective)
            s == LowerUnderscore(args.market_segment)
            h == LowerUnderscore(args.time_horizon)
        IN  /\ result = Run(o, s, h, args.available_budget, args.current_challenges)
            /\ LowerUnderscore(o) = o /\ LowerUnderscore(s) = s /\ LowerUnderscore(h) = h
            /\ result.business_objective = o
            /\ result.market_segment = s
            /\ result.time_horizon = h

\* C10 witness: objective, segment and horizon all given with capitals and spaces.
C10_Witness ==
    /\ Returned("recommend")
    /\ args.business_objective = "Launch New Product"
    /\ args.market_segment = "B2B"
    /\ args.time_horizon = "Medium Term"
    /\ result.business_objective = "launch_new_product"
    /\ result.time_horizon = "medium_term"

\* the horizon the plan was built for
PlannedHorizon == IF op = "plan" THEN args.time_horizon ELSE result.time_horizon

\* C11: whatever the strategy list, the plan's (timeline_unit, total_duration) is
\* (weeks, 12) for short_term, (months, 12) for medium_term, (quarters, 8) for
\* long_term and (quarters, 8) for every other horizon string.
C11_TimelineFixedByHorizon ==
    PlanReturned =>
        <<ThePlan.timeline_unit, ThePlan.total_duration>> =
            CASE PlannedHorizon = "short_term" -> <<"weeks", 12>>
              [] PlannedHorizon = "medium_term" -> <<"months", 12>>
              [] PlannedHorizon = "long_term" -> <<"quarters", 8>>
              [] OTHER -> <<"quarters", 8>>

\* C11 witness: a horizon that is none of the three, planned for three strategies,
\* in quarters over 8.
C11_Witness ==
    /\ Returned("plan")
    /\ args.time_horizon \notin { "short_term", "medium_term", "long_term" }
    /\ Len(args.strategies) = 3
    /\ result.timeline_unit = "quarters"
    /\ result.total_duration = 8

\* a call that builds an outcome projection has returned
OutcomeReturned == Returned("estimate") \/ Returned("recommend")

\* the outcome projection it returned
TheOutcomes == IF op = "estimate" THEN result ELSE result.expected_outcomes

\* the objective the projection was built for
EstimatedObjective ==
    IF op = "estimate" THEN args.business_objective ELSE result.business_objective

\* the strategies the projection was built for
EstimatedStrategies ==
    IF op = "estimate" THEN args.strategies ELSE result.recommended_strategies

\* C12: the primary and secondary metric lists are those of the objective alone,
\* whatever the segment, horizon and strategies; an objective the metric table lacks
\* gets the increase_market_share lists; key_performance_indicators is the first
\* two entries of the primary list.
C12_MetricsByObjectiveAlone ==
    OutcomeReturned =>
        LET row == IF EstimatedObjective \in DOMAIN metrics_by_objective
                   THEN metrics_by_objective[EstimatedObjective]
                   ELSE metrics_by_objective["increase_market_share"]
        IN  /\ TheOutcomes.primary_metrics = row.primary
            /\ TheOutcomes.secondary_metrics = row.secondary
            /\ TheOutcomes.estimated_impact.key_performance_indicators
                  = <<row.primary[1], row.primary[2]>>

\* C12 witness: an objective the metric table lacks, estimated for three
\* strategies, reporting the increase_market_share metrics.
C12_Witness ==
    /\ Returned("estimate")
    /\ args.business_objective \notin DOMAIN metrics_by_objective
    /\ Len(args.strategies) = 3
    /\ result.primary_metrics[1] = "Market share percentage"

C14_RunReportsExecutorOutcome ==
    agent.pc = "returned" =>
        /\ agent.result # None
        /\ DOMAIN agent.result[1] = { "response", "success" }
        /\ agent.invoked =
              << [input |-> IF agent.query # None THEN agent.query ELSE agent.input_text] >>
        /\ agent.outcome # None
        /\ agent.outcome[1].kind = "returns" =>
              agent.result[1] = [response |-> agent.outcome[1].output, success |-> TRUE]
        /\ agent.outcome[1].kind = "raises" =>
              agent.result[1] = [response |-> "An error occurred: " \o agent.outcome[1].message,
                                 success |-> FALSE]

\* C15: in every plan with two or more phases, each phase after the first starts
\* exactly one timeline unit before its predecessor ends.
C15_EachPhaseOverlapsPredecessorByOne ==
    (PlanReturned /\ Len(ThePlan.phases) >= 2) =>
        \A i \in 2..Len(ThePlan.phases) :
            ThePlan.phases[i].start = ThePlan.phases[i - 1].end - 1

\* C16: for an objective absent from the impact-range table the estimated impact
\* carries the generic range of its tier: 5-10% low, 10-20% medium, 20-30% high.
C16_UnknownObjectiveGenericRange ==
    (OutcomeReturned /\ EstimatedObjective \notin DOMAIN impact_ranges) =>
        TheOutcomes.estimated_impact.overall_impact \in
            { "Expected low impact with 5-10% improvement in primary metrics",
              "Expected medium impact with 10-20% improvement in primary metrics",
              "Expected high impact with 20-30% improvement in primary metrics" }

\* C17: if no horizon-eligible template matches the segment, the segment contains
\* none of b2b, b2c, retail, tech, and at least one template is horizon-eligible,
\* the selector returns all horizon-eligible templates in catalog order.
C17_UnknownSegmentIsWildcard ==
    Returned("select") =>
        LET catalog == CatalogOf(args.business_objective)
            matched == MatchedPositions(catalog, args.market_segment, args.time_horizon)
            eligible == EligiblePositions(catalog, args.time_horizon)
        IN  (matched = {} /\ ~HasKnownKeyword(args.market_segment) /\ eligible # {}) =>
                result = Keep(catalog, eligible)

\* C17 witness: a segment without keyword that matches no template gets three or
\* more eligible templates, not all of the catalog list.
C17_Witness ==
    /\ Returned("select")
    /\ ~HasKnownKeyword(args.market_segment)
    /\ LET catalog == CatalogOf(args.business_objective)
       IN  /\ MatchedPositions(catalog, args.market_segment, args.time_horizon) = {}
           /\ Len(result) >= 3
           /\ Len(result) < Len(catalog)

\* the positions of the templates that pass the horizon-and-segment filter
PassedPositions(catalog, segment, horizon) ==
    { k \in EligiblePositions(catalog, horizon) :
        MatchesSegment(catalog[k], segment) \/ ~HasKnownKeyword(segment) }

\* the returned strategy is a template whose horizon tags lack the horizon
ReturnedOffHorizon(catalog, strategy, horizon) ==
    \E k \in 1..Len(catalog) :
        strategy = Stripped(catalog[k]) /\ ~CarriesHorizon(catalog[k], horizon)

\* C18: a template whose horizon tags lack the requested horizon is returned only
\* when no template passed the horizon-and-segment filter, and then the result is
\* exactly the first two templates of the catalog list, in order; otherwise every
\* returned strategy is horizon-eligible.
C18_OffHorizonOnlyInFallback ==
    Returned("select") =>
        LET catalog == CatalogOf(args.business_objective)
            passed == PassedPositions(catalog, args.market_segment, args.time_horizon)
            off == { i \in 1..Len(result) :
                       ReturnedOffHorizon(catalog, result[i], args.time_horizon) }
        IN  /\ off # {} => passed = {}
            /\ passed = {} => result = <<Stripped(catalog[1]), Stripped(catalog[2])>>
            /\ passed # {} =>
                  \A i \in 1..Len(result) :
                      \E k \in EligiblePositions(catalog, args.time_horizon) :
                          result[i] = Stripped(catalog[k])

\* C18 witness: nothing passed the filter although some template carries the
\* horizon, and a template that does not carry it is returned.
C18_Witness ==
    /\ Returned("select")
    /\ LET catalog == CatalogOf(args.business_objective)
       IN  /\ PassedPositions(catalog, args.market_segment, args.time_horizon) = {}
           /\ EligiblePositions(catalog, args.time_horizon) # {}
           /\ Len(catalog) > 2
           /\ \E i \in 1..Len(result) :
                 ReturnedOffHorizon(catalog, result[i], args.time_horizon)

\* the strategies the risk assessment was built for
AssessedStrategies ==
    IF op = "assess" THEN args.strategies ELSE result.recommended_strategies

\* the challenges the caller passed, none when the caller passed no list
AssessedChallenges ==
    IF op = "assess" THEN args.current_challenges
    ELSE IF args.current_challenges = None THEN <<>>
    ELSE args.current_challenges[1]

RECURSIVE TableRisks(_)
\* the risk-table rows of the strategies one after the other, duplicates kept
TableRisks(strategies) ==
    IF strategies = <<>> THEN <<>>
    ELSE LET name == strategies[1].strategy
         IN  (IF name \in DOMAIN common_risks THEN common_risks[name] ELSE <<>>)
                 \o TableRisks(Tail(strategies))

\* the entry of each challenge, in caller order, duplicates kept
ChallengeEntries(challenges) ==
    [i \in 1..Len(challenges) |-> "Existing challenge: " \o challenges[i]]

\* the first occurrences of the elements of a list, in list order
FirstOccurrences(seq) ==
    LET firsts == { i \in 1..Len(seq) : \A j \in 1..(i - 1) : seq[j] # seq[i] }
    IN  [k \in 1..Cardinality(firsts) |->
            seq[CHOOSE i \in firsts : Cardinality({ j \in firsts : j <= i }) = k]]

\* C19: key_risks is the first five elements of the list built by appending,
\* without duplicates, the default risks of each strategy in selection order and
\* then "Existing challenge: c" for each challenge c in caller order; a strategy
\* absent from the risk table contributes nothing.
C19_KeyRisksAreFirstFiveAccumulated ==
    RiskReturned =>
        LET accumulated == FirstOccurrences(TableRisks(AssessedStrategies)
                                            \o ChallengeEntries(AssessedChallenges))
        IN  TheRisks.key_risks =
                [k \in 1..(IF Len(accumulated) < 5 THEN Len(accumulated) ELSE 5) |->
                    accumulated[k]]

\* C19 witness: a strategy absent from the risk table stands beside one that is in
\* it, a challenge is passed twice, more than five risks accumulate, and a
\* challenge is among the key risks.
C19_Witness ==
    /\ Returned("assess")
    /\ \E i \in 1..Len(args.strategies) : args.strategies[i].strategy \notin DOMAIN common_risks
    /\ \E i \in 1..Len(args.strategies) : args.strategies[i].strategy \in DOMAIN common_risks
    /\ \E i \in 1..Len(args.current_challenges), j \in 1..Len(args.current_challenges) :
          i # j /\ args.current_challenges[i] = args.current_challenges[j]
    /\ Len(FirstOccurrences(TableRisks(args.strategies)
                            \o ChallengeEntries(args.current_challenges))) > 5
    /\ \E i \in 1..Len(args.current_challenges) :
          InSeq("Existing challenge: " \o args.current_challenges[i], result.key_risks)

\* the distinct default risks of the strategies
DistinctTableRisks(strategies) == Range(TableRisks(strategies))

\* C20: a challenge is among key_risks only if fewer than five distinct risks were
\* accumulated before its first occurrence; when the strategies contribute five or
\* more distinct default risks, no challenge appears in key_risks or among the
\* keys of mitigation_strategies.
C20_ChallengeOnlyWithinFirstFive ==
    RiskReturned =>
        LET challenges == AssessedChallenges
            defaults == DistinctTableRisks(AssessedStrategies)
            entries == ChallengeEntries(challenges)
        IN  /\ \A i \in 1..Len(challenges) :
                  ((\A j \in 1..(i - 1) : challenges[j] # challenges[i])
                   /\ InSeq(entries[i], TheRisks.key_risks)) =>
                      Cardinality(defaults \cup { entries[j] : j \in 1..(i - 1) }) < 5
            /\ Cardinality(defaults) >= 5 =>
                  \A i \in 1..Len(challenges) :
                      /\ ~InSeq(entries[i], TheRisks.key_risks)
                      /\ ~InSeq(challenges[i], TheRisks.key_risks)
                      /\ entries[i] \notin DOMAIN TheRisks.mitigation_strategies
                      /\ challenges[i] \notin DOMAIN TheRisks.mitigation_strategies

\* C20 witness: Competitive Pricing Strategy with Digital Channel Optimization and
\* a non-empty challenge list: five default risks and no challenge among them.
C20_Witness ==
    /\ RiskReturned
    /\ Len(AssessedStrategies) = 2
    /\ AssessedStrategies[1].strategy = "Competitive Pricing Strategy"
    /\ AssessedStrategies[2].strategy = "Digital Channel Optimization"
    /\ AssessedChallenges # <<>>
    /\ Len(TheRisks.key_risks) = 5
    /\ \A i \in 1..Len(TheRisks.key_risks) :
          TheRisks.key_risks[i] \in DistinctTableRisks(AssessedStrategies)

\* strategy.py:561-576  the keyword groups in the order they are tested, each with
\* the mitigation text it selects
mitigation_groups ==
    << [keywords |-> { "pricing", "margin" },
        text |-> "Implement value-based pricing strategy with tiered options to protect margins"],
       [keywords |-> { "competitive", "retaliation" },
        text |-> "Develop scenario planning for competitive responses; prepare contingency plans"],
       [keywords |-> { "delay", "timeline" },
        text |-> "Implement agile methodology with regular milestones and flexible resource allocation"],
       [keywords |-> { "cost", "budget" },
        text |-> "Establish clear budget thresholds with stage-gate approach; prioritize initiatives by ROI"],
       [keywords |-> { "adoption", "engagement" },
        text |-> "Develop staged rollout with feedback loops; create targeted incentives for early adoption"],
       [keywords |-> { "measurement", "roi" },
        text |-> "Implement comprehensive attribution model; establish proxy metrics for long-term initiatives"],
       [keywords |-> { "resource" },
        text |-> "Create flexible resourcing plan with external partner options; prioritize initiatives"] >>

\* strategy.py:576  the text of a risk no keyword group matches
generic_mitigation ==
    "Establish monitoring system with early warning indicators; create contingency plans"

\* the groups one of whose keywords occurs in the risk text, letter case ignored
GroupsMatching(risk) ==
    LET lowered == Lower(risk)
    IN  { g \in 1..Len(mitigation_groups) :
            \E w \in mitigation_groups[g].keywords : Contains(w, lowered) }

\* C21: each retained risk gets the mitigation text of the first keyword group, in
\* the order pricing|margin, competitive|retaliation, delay|timeline, cost|budget,
\* adoption|engagement, measurement|roi, resource, one of whose keywords occurs in
\* the risk text ignoring case; a risk matching no group gets the generic text.
C21_MitigationOfFirstMatchingGroup ==
    RiskReturned =>
        \A i \in 1..Len(TheRisks.key_risks) :
            LET risk == TheRisks.key_risks[i]
                matching == GroupsMatching(risk)
            IN  TheRisks.mitigation_strategies[risk] =
                    IF matching = {} THEN generic_mitigation
                    ELSE mitigation_groups[CHOOSE g \in matching :
                                             \A h \in matching : g <= h].text

\* C21 witness: among the retained risks one matches two groups, one matches a
\* group only when case is ignored, and one matches none.
C21_Witness ==
    /\ RiskReturned
    /\ \E i \in 1..Len(TheRisks.key_risks) :
          Cardinality(GroupsMatching(TheRisks.key_risks[i])) >= 2
    /\ \E i \in 1..Len(TheRisks.key_risks) :
          LET risk == TheRisks.key_risks[i]
          IN  /\ GroupsMatching(risk) # {}
              /\ \A g \in 1..Len(mitigation_groups) :
                    \A w \in mitigation_groups[g].keywords : ~Contains(w, risk)
    /\ \E i \in 1..Len(TheRisks.key_risks) : GroupsMatching(TheRisks.key_risks[i]) = {}

\* C22: within every phase the milestone offsets are non-decreasing in tactic order
\* and lie inside the phase window: start <= offset(0) <= ... <= offset(last) <= end.
C22_MilestonesOrderedInsidePhase ==
    PlanReturned =>
        \A i \in 1..Len(ThePlan.phases) :
            LET phase == ThePlan.phases[i]
                milestones == phase.key_milestones
            IN  \A k \in 1..Len(milestones) :
                    /\ phase.start <= milestones[k].timeline
                    /\ milestones[k].timeline <= phase.end
                    /\ k > 1 => milestones[k - 1].timeline <= milestones[k].timeline

\* C29: plan called with a strategy list of any length yields, for every phase,
\* start <= end <= total_duration.
C29_EveryPhaseInsideTimeline ==
    Returned("plan") =>
        \A i \in 1..Len(result.phases) :
            /\ result.phases[i].start <= result.phases[i].end
            /\ result.phases[i].end <= result.total_duration

\* a call that builds a budget allocation has returned
AllocationReturned ==
    \/ Returned("allocate")
    \/ Returned("recommend") /\ "budget_allocation" \in DOMAIN result

\* the allocation it returned
TheAllocation == IF op = "allocate" THEN result ELSE result.budget_allocation

\* the strategies the allocation was built for
AllocatedStrategies ==
    IF op = "allocate" THEN args.strategies ELSE result.recommended_strategies

\* the first of the name tests that succeeds, 5 for a name that passes none
FirstNameTest(name) ==
    CASE Contains("Digital", name) \/ Contains("Campaign", name) -> 1
      [] ~(Contains("Digital", name) \/ Contains("Campaign", name))
         /\ Contains("Content", name) -> 2
      [] ~(Contains("Digital", name) \/ Contains("Campaign", name))
         /\ ~Contains("Content", name) /\ Contains("Product", name) -> 3
      [] ~(Contains("Digital", name) \/ Contains("Campaign", name))
         /\ ~Contains("Content", name) /\ ~Contains("Product", name)
         /\ (Contains("Loyalty", name) \/ Contains("Experience", name)) -> 4
      [] OTHER -> 5

\* the number of name tests the name passes
NameTestsPassed(name) ==
    Cardinality({ w \in { "Digital", "Content", "Product", "Loyalty" } : Contains(w, name) }
                \cup { w \in { "Campaign", "Experience" } : Contains(w, name) })

\* strategy.py:628-657  the vector of each test, in the order of categories
vector_of_test ==
    << <<40, 25, 15, 10, 10>>,
       <<20, 45, 10, 10, 15>>,
       <<15, 20, 25, 20, 20>>,
       <<10, 15, 35, 15, 25>>,
       <<25, 20, 20, 15, 20>> >>

RECURSIVE VectorSum(_, _)
\* the sum over the strategies of the c-th weight of each one's vector
VectorSum(strategies, c) ==
    IF strategies = <<>> THEN 0
    ELSE vector_of_test[FirstNameTest(Head(strategies).strategy)][c]
            + VectorSum(Tail(strategies), c)

\* p is an integer nearest to num / den, den > 0
Nearest(p, num, den) ==
    /\ 2 * (p * den - num) <= den
    /\ 2 * (num - p * den) <= den

\* C23: each strategy contributes the one vector of the first name test it passes
\* (Digital or Campaign, Content, Product, Loyalty or Experience, else the default),
\* in the order of the five categories: the percentage of each category is its
\* share of the summed vectors, and for one strategy it is the vector itself.
C23_OneVectorPerStrategy ==
    (AllocationReturned /\ AllocatedStrategies # <<>>) =>
        LET strategies == AllocatedStrategies
            by_category == TheAllocation.allocation_by_category
        IN  /\ DOMAIN by_category = Range(categories)
            /\ categories = <<"Media & Advertising", "Content Production",
                              "Technology & Tools", "Research & Analysis",
                              "Personnel & Resources">>
            /\ \A c \in 1..Len(categories) :
                  /\ Nearest(ParsePercent(by_category[categories[c]]),
                             100 * VectorSum(strategies, c),
                             100 * Len(strategies))
                  /\ Len(strategies) = 1 =>
                        by_category[categories[c]] =
                            ToString(vector_of_test[FirstNameTest(strategies[1].strategy)][c])
                                \o "%"

\* C23 witness: the allocation of one strategy whose name passes several tests, and
\* it is the vector of the earliest.
C23_Witness ==
    /\ Returned("allocate")
    /\ Len(args.strategies) = 1
    /\ NameTestsPassed(args.strategies[1].strategy) >= 3
    /\ result.allocation_by_category["Media & Advertising"] = "40%"

\* the names of the strategies are all different
DistinctNames(strategies) ==
    \A i \in 1..Len(strategies), j \in 1..Len(strategies) :
        i # j => strategies[i].strategy # strategies[j].strategy

\* max(0.3, 1.0 - 0.15 * i) in hundredths
WeightHundredths(i) == IF 100 - 15 * i > 30 THEN 100 - 15 * i ELSE 30

RECURSIVE WeightSum(_)
\* the sum of the weights of the first n strategies, in hundredths
WeightSum(n) == IF n = 0 THEN 0 ELSE WeightHundredths(n - 1) + WeightSum(n - 1)

\* the percentage of the strategy at 1-based position k
StrategyPercent(k) ==
    ParsePercent(TheAllocation.allocation_by_strategy[AllocatedStrategies[k].strategy])

\* C24: for a non-empty strategy list with distinct names, allocation_by_strategy
\* has exactly one entry per strategy, the entry of the strategy at index i is
\* 100 * w(i) / sum of w rounded to an integer, w(i) = max(0.3, 1.0 - 0.15 * i),
\* and the percentages are non-increasing in selection order.
C24_PercentByDecreasingWeight ==
    (AllocationReturned /\ AllocatedStrategies # <<>> /\ DistinctNames(AllocatedStrategies)) =>
        LET n == Len(AllocatedStrategies)
            by_strategy == TheAllocation.allocation_by_strategy
        IN  /\ DOMAIN by_strategy = { AllocatedStrategies[k].strategy : k \in 1..n }
            /\ Cardinality(DOMAIN by_strategy) = n
            /\ \A k \in 1..n :
                  /\ by_strategy[AllocatedStrategies[k].strategy]
                        = ToString(StrategyPercent(k)) \o "%"
                  /\ Nearest(StrategyPercent(k), 100 * WeightHundredths(k - 1), WeightSum(n))
            /\ \A k \in 1..n, m \in 1..n :
                  k < m => StrategyPercent(k) >= StrategyPercent(m)

\* C24 witness: seven strategies of different names; the sixth and the seventh have
\* the minimum weight and so the same percentage, below the fifth.
C24_Witness ==
    /\ Returned("allocate")
    /\ Len(args.strategies) = 7
    /\ DistinctNames(args.strategies)
    /\ StrategyPercent(6) = StrategyPercent(7)
    /\ StrategyPercent(5) > StrategyPercent(6)

RECURSIVE PercentSum(_)
\* the sum of the percentages of the first n strategies
PercentSum(n) == IF n = 0 THEN 0 ELSE StrategyPercent(n) + PercentSum(n - 1)

\* C25: for every strategy list the selector can return (1 to 4 strategies of
\* distinct names) the per-strategy percentages sum to 99, 100 or 101, and each is
\* its own share rounded on its own: no remainder is moved to make the sum 100.
C25_StrategyPercentagesWithinOne ==
    (/\ AllocationReturned
     /\ Len(AllocatedStrategies) \in 1..4
     /\ DistinctNames(AllocatedStrategies)) =>
        LET n == Len(AllocatedStrategies)
        IN  /\ PercentSum(n) \in 99..101
            /\ \A k \in 1..n :
                  Nearest(StrategyPercent(k), 100 * WeightHundredths(k - 1), WeightSum(n))

\* C25 witness: three strategies whose percentages sum to 99, left uncorrected.
C25_Witness ==
    /\ AllocationReturned
    /\ Len(AllocatedStrategies) = 3
    /\ DistinctNames(AllocatedStrategies)
    /\ PercentSum(3) = 99

\* the lower bound of a range such as "8-15%": the digits before the first "-"
LowerBound(range) ==
    LET cut == CHOOSE k \in 1..Len(range) :
                   /\ SubSeq(range, k, k) = "-"
                   /\ \A m \in 1..(k - 1) : SubSeq(range, m, m) # "-"
    IN  SubSeq(range, 1, cut - 1)

\* the impact tier a number of strategies gives
TierOfCount(count) ==
    CASE count >= 3 -> "high"
      [] count = 2 -> "medium"
      [] count <= 1 -> "low"

\* C26: the tier named in overall_impact is high exactly for 3 or more strategies,
\* medium exactly for 2, low exactly for 0 or 1, whatever the objective and the
\* strategies are; and success_criteria quotes the lower bound of the range that
\* overall_impact quotes.
C26_TierByCountAndLowerBound ==
    OutcomeReturned =>
        \E range \in UNION { { impact_ranges[o][t] : t \in DOMAIN impact_ranges[o] } :
                               o \in DOMAIN impact_ranges } :
            /\ TheOutcomes.estimated_impact.overall_impact =
                  "Expected " \o TierOfCount(Len(EstimatedStrategies)) \o " impact with "
                      \o range \o " improvement in primary metrics"
            /\ TheOutcomes.estimated_impact.success_criteria =
                  "Achieve minimum " \o LowerBound(range) \o "% improvement in primary metrics"

\* C26 witness: an estimate for exactly two strategies names the medium tier.
C26_Witness ==
    /\ OutcomeReturned
    /\ Len(EstimatedStrategies) = 2
    /\ \E range \in { impact_ranges[o]["medium"] : o \in DOMAIN impact_ranges } :
          TheOutcomes.estimated_impact.overall_impact =
              "Expected medium impact with " \o range \o " improvement in primary metrics"

\* C27: the plan has exactly one phase per strategy, in selection order, the phase
\* of the strategy at 0-based index i labelled "Phase i+1: <strategy name>", and
\* each phase has exactly one milestone per tactic, in tactic order; a strategy
\* without tactics gets a phase with an empty milestone list.
C27_OnePhasePerStrategyOneMilestonePerTactic ==
    PlanReturned =>
        /\ Len(ThePlan.phases) = Len(PlannedStrategies)
        /\ \A k \in 1..Len(PlannedStrategies) :
              LET strategy == PlannedStrategies[k]
                  phase == ThePlan.phases[k]
              IN  /\ phase.phase = "Phase " \o ToString(k) \o ": " \o strategy.strategy
                  /\ Len(phase.key_milestones) = Len(strategy.tactics)
                  /\ \A j \in 1..Len(strategy.tactics) :
                        phase.key_milestones[j].milestone = "Complete " \o strategy.tactics[j]
                  /\ strategy.tactics = <<>> => phase.key_milestones = <<>>

\* C27 witness: a plan whose second phase belongs to a strategy without tactics and
\* has no milestone, beside a phase with several milestones.
C27_Witness ==
    /\ Returned("plan")
    /\ Len(result.phases) >= 3
    /\ args.strategies[2].tactics = <<>>
    /\ result.phases[2].key_milestones = <<>>
    /\ Len(result.phases[3].key_milestones) >= 2

\* C28: recommend called with a horizon that, normalized, is none of short_term,
\* medium_term, long_term returns the first two templates of the (defaulted)
\* objective's catalog list and a plan in quarters, of total duration 8, with
\* exactly two phases.
C28_UnknownHorizonFallsBack ==
    (/\ Returned("recommend")
     /\ LowerUnderscore(args.time_horizon) \notin { "short_term", "medium_term", "long_term" }) =>
        LET catalog == CatalogOf(LowerUnderscore(args.business_objective))
        IN  /\ result.recommended_strategies = <<Stripped(catalog[1]), Stripped(catalog[2])>>
            /\ result.implementation_plan.timeline_unit = "quarters"
            /\ result.implementation_plan.total_duration = 8
            /\ Len(result.implementation_plan.phases) = 2

\* C28 witness: a horizon named forever, an objective the catalog lacks, and the
\* first two templates of increase_market_share are returned.
C28_Witness ==
    /\ Returned("recommend")
    /\ args.time_horizon = "forever"
    /\ LowerUnderscore(args.business_objective) \notin DOMAIN strategy_templates
    /\ Len(result.recommended_strategies) = 2
    /\ result.recommended_strategies[1].strategy
          = strategy_templates["increase_market_share"][1].strategy
    /\ result.implementation_plan.timeline_unit = "quarters"

\* the two strings are equal when the case of their letters is ignored
EqualIgnoringCase(a, b) ==
    /\ Len(a) = Len(b)
    /\ \A k \in 1..Len(a) : LowerChar(SubSeq(a, k, k)) = LowerChar(SubSeq(b, k, k))

\* the line equals exit, quit or q, ignoring case
ExitLine(line) == \E w \in { "exit", "quit", "q" } : EqualIgnoringCase(line, w)

\* nothing is left of the line when its blanks are removed
BlankLine(line) == \A k \in 1..Len(line) : SubSeq(line, k, k) = " "

RECURSIVE QueriesOf(_)
\* the lines, in the order entered, that are neither blank nor an exit line
QueriesOf(entered) ==
    IF entered = <<>> THEN <<>>
    ELSE LET n == Len(entered)
             front == QueriesOf(SubSeq(entered, 1, n - 1))
         IN  IF ExitLine(entered[n].line) \/ BlankLine(entered[n].line)
             THEN front
             ELSE Append(front, entered[n].line)

\* what holds of a session at every moment: an exit line is the last line read and
\* has ended the loop; the loop has ended only at an exit line or a keyboard
\* interrupt; agent.run was called once per non-blank line that is not the exit
\* line, in input order; after a query whose processing raised an exception the
\* loop is reading again
SessionInOrder ==
    LET n == Len(session.entered)
    IN  /\ \A i \in 1..n :
              ExitLine(session.entered[i].line) => (i = n /\ session.pc = "ended")
        /\ session.pc = "ended" <=>
              \/ session.last = "interrupt"
              \/ n > 0 /\ session.last = "line"
                       /\ \/ ExitLine(session.entered[n].line)
                          \/ session.entered[n].outcome = "interrupted"
        /\ session.runs = QueriesOf(session.entered)
        /\ (n > 0 /\ session.last = "line" /\ session.entered[n].outcome = "error") =>
              session.pc = "reading"

\* C30: in interactive mode the loop ends at the first line equal to exit, quit or
\* q ignoring case (or at a keyboard interrupt) and reads nothing afterwards;
\* agent.run is called exactly once, in input order, for each earlier line that is
\* not blank, never for a blank line or the exit line; an exception raised while a
\* query is processed does not end the loop.
C30_LoopEndsAtExitRunsEachQueryOnce ==
    /\ []SessionInOrder
    /\ [][session.pc = "ended" => session' = session]_vars

\* C30 witness: a query whose processing raised, then a blank line, then Quit or Q:
\* the loop has ended with one call of agent.run.
C30_Witness ==
    /\ session.pc = "ended"
    /\ Len(session.entered) = 3
    /\ session.entered[1].outcome = "error"
    /\ session.entered[2].outcome = "blank"
    /\ session.entered[3].outcome = "exit"
    /\ session.entered[3].line # Lower(session.entered[3].line)
    /\ session.runs = <<session.entered[1].line>>

=============================================================================
